---- MODULE Spec2Model ----
(***************************************************************************)
(* A model of the monde package: the Validator transform, the transform    *)
(* Pipeline, the schema registries, the three schema builders and the      *)
(* SubframeExtractor. Each component has its own specification             *)
(* (SpecValidator, SpecPipeline, SpecRegistry, SpecBuilders, SpecSubframe);*)
(* the variables of the other components stay at their initial values.     *)
(***************************************************************************)
EXTENDS Integers, Sequences, FiniteSets, TLC

VARIABLES
    \* ---- transform/validator.py: one Validator instance
    schema,         \* the pandera schema's options: [strict, add_missing_columns]
    error_handler,  \* Validator.error_handler: "log", "noop" or "raise"
    errors,         \* Validator.errors: the cached failure cases
    vcall,          \* the last fit_transform call: its input and its outcome
    \* ---- transform/pipeline.py: one Pipeline instance
    steps,          \* Pipeline.steps: an insertion-ordered dict, as a sequence of [key, step]
    supplied,       \* history: the (key, step) pairs given to __init__ and add_step, in order
    prun,           \* the last Pipeline.fit_transform call: its log of step calls and its outcome
    \* ---- schema/registry: one registry whose get is wrapped by lru_cache
    cache,          \* the lru_cache dict of get: key -> cached SchemaModel (or NoValue)
    pc,             \* per thread: where it is inside the wrapped get
    arg,            \* per thread: the key it was called with
    local,          \* per thread: the value its reader call produced
    reads,          \* history: per key, the number of reader invocations
    returned,       \* history: per key, the set of values get returned
    ncalls,         \* per thread: number of get calls started
    \* ---- schema/builders
    metadata,       \* the caller's sql.MetaData: the set of table names registered in it
    bcall,          \* the last builder call, its outcome, and that of the same call before it
    \* ---- transform/subframe.py: one SubframeExtractor instance
    region,         \* SubframeExtractor.region
    ctor_region,    \* history: the region argument given to __init__
    header,         \* SubframeExtractor.header
    index_col,      \* SubframeExtractor.index_col
    bbox,           \* SubframeExtractor.(x1, y1, x2, y2)
    scall,          \* the last fit_transform call: its grid, the regions found, its outcome
    \* ---- transform/simple.py
    ccall,          \* the last call of a Clean* transform on a one-cell column, its outcome
    rcall,          \* the last RenameAliases.transform call, its outcome
    \* ---- schema/spec: the field factory and the schema model
    fcall,          \* the last SchemaField or SchemaModel construction, its outcome
    \* ---- what is built from a schema, put to use
    mcall,          \* the last use of the record model ModelBuilder builds, its outcome
    ecall           \* the last transform run on a schema DataFrameSchemaBuilder built

validatorVars == <<schema, error_handler, errors, vcall>>
pipelineVars  == <<steps, supplied, prun>>
registryVars  == <<cache, pc, arg, local, reads, returned, ncalls>>
builderVars   == <<metadata, bcall>>
subframeVars  == <<region, ctor_region, header, index_col, bbox, scall>>
simpleVars    == <<ccall, rcall>>
factoryVars   == <<fcall>>
builtVars     == <<mcall, ecall>>
vars == <<validatorVars, pipelineVars, registryVars, builderVars, subframeVars,
          simpleVars, factoryVars, builtVars>>

None == "None"

(***************************************************************************)
(* Tables. A table is its set of column labels, its set of row index       *)
(* labels, and the set of cells (row, column) whose value fails the        *)
(* column's type or check.                                                 *)
(***************************************************************************)
MaxRows == 2
RowIds == 0 .. (MaxRows - 1)
SchemaColumns == {"a", "b"}
CheckedColumns == {"a"}  \* the schema columns whose type or check a value can fail
ExtraColumns == {"x"}
InputColumns == SchemaColumns \cup ExtraColumns

Tables ==
    UNION { UNION { { [cols |-> c, rows |-> r, bad |-> b] :
                        b \in SUBSET (r \X (c \cap CheckedColumns)) } :
                    r \in SUBSET RowIds } :
            c \in SUBSET InputColumns }

EmptyTable == [cols |-> {}, rows |-> {}, bad |-> {}]

(***************************************************************************)
(* pandera, as transform/validator.py uses it.                             *)
(* A failure case is a row of SchemaErrors.failure_cases.                  *)
(***************************************************************************)
SchemaFailure(check, name) ==
    [schema_context |-> "DataFrameSchema", column |-> None, check |-> check,
     failure_case |-> name, index |-> -1]

ColumnFailure(r, c) ==
    [schema_context |-> "Column", column |-> c, check |-> "check",
     failure_case |-> "value", index |-> r]

\* The cells of X that fail a schema column's type or check.
BadCells(X) == { cell \in X.bad : cell[1] \in X.rows /\ cell[2] \in X.cols \cap CheckedColumns }

\* schema.validate(X, lazy=True): every failure case of X under the schema.
\* A column of X the schema does not declare fails "column_in_schema" when
\* strict=True; a declared column X lacks fails "column_in_dataframe" unless
\* the schema adds missing columns.
FailureCases(sch, X) ==
    { SchemaFailure("column_in_schema", c) :
        c \in IF sch.strict = "True" THEN X.cols \ SchemaColumns ELSE {} }
    \cup
    { SchemaFailure("column_in_dataframe", c) :
        c \in IF sch.add_missing_columns THEN {} ELSE SchemaColumns \ X.cols }
    \cup
    { ColumnFailure(cell[1], cell[2]) : cell \in BadCells(X) }

\* What schema.validate returns when there is no failure case: strict="filter"
\* drops the undeclared columns, add_missing_columns inserts the absent ones.
Validated(sch, X) ==
    LET kept == IF sch.strict = "filter" THEN X.cols \cap SchemaColumns ELSE X.cols
        cols == IF sch.add_missing_columns THEN kept \cup SchemaColumns ELSE kept
    IN  [cols |-> cols, rows |-> X.rows, bad |-> BadCells(X)]

(***************************************************************************)
(* transform/validator.py                                                  *)
(***************************************************************************)
\* Validator.index_errors["index"]
index_errors(errs) == { e.index : e \in { f \in errs : f.schema_context = "Column" } }

\* Validator.extra_column_errors["failure_case"]
extra_column_errors(errs) ==
    { e.failure_case : e \in { f \in errs : f.schema_context = "DataFrameSchema"
                                            /\ f.check = "column_in_dataframe" } }

\* Validator.missing_column_errors["failure_case"]
missing_column_errors(errs) ==
    { e.failure_case : e \in { f \in errs : f.schema_context = "DataFrameSchema"
                                            /\ f.check = "column_in_schema" } }

\* log_error_report, noop and raise_error_report: does the sink raise?
SinkRaises(handler) == handler = "raise"

\* X.drop(index=labels) and X.drop(columns=labels) raise KeyError for a label
\* that is not on the axis.
DropRows(X, labels) == [X EXCEPT !.rows = @ \ labels]
DropColumns(X, labels) == [X EXCEPT !.cols = @ \ labels]

\* Validator.fit_transform(X): the new Validator.errors and the call's outcome.
fit_transform(sch, handler, errs, X) ==
    LET cases   == FailureCases(sch, X)
        failed  == cases # {}
        errs1   == IF failed THEN cases ELSE errs
        rowlbls == index_errors(errs1)
        collbls == extra_column_errors(errs1)
        X1      == DropRows(X, rowlbls)
        X2      == DropColumns(X1, collbls)
        raised  == IF failed /\ SinkRaises(handler) THEN "SchemaErrors"
                   ELSE IF ~(rowlbls \subseteq X.rows) THEN "KeyError"
                   ELSE IF ~(collbls \subseteq X1.cols) THEN "KeyError"
                   ELSE IF FailureCases(sch, X2) # {} THEN "SchemaErrors"
                   ELSE None
    IN  [errors     |-> errs1,
         called     |-> TRUE,
         X          |-> X,
         cases      |-> cases,
         sink_calls |-> IF failed THEN 1 ELSE 0,
         sink_arg   |-> IF failed THEN cases ELSE {},
         raised     |-> raised,
         out        |-> IF raised = None THEN Validated(sch, X2) ELSE EmptyTable]

NoCall ==
    [called |-> FALSE, X |-> EmptyTable, cases |-> {}, sink_calls |-> 0,
     sink_arg |-> {}, raised |-> None, out |-> EmptyTable]

ValidatorInit ==
    /\ schema \in [strict : {"False", "True", "filter"}, add_missing_columns : BOOLEAN]
    /\ error_handler \in {"log", "noop", "raise"}
    /\ errors = {}
    /\ vcall = NoCall

ValidatorIdle ==
    /\ schema = [strict |-> "True", add_missing_columns |-> FALSE]
    /\ error_handler = "log"
    /\ errors = {}
    /\ vcall = NoCall

FitTransform(X) ==
    LET r == fit_transform(schema, error_handler, errors, X)
    IN  /\ errors' = r.errors
        /\ vcall' = [called |-> TRUE, X |-> X, cases |-> r.cases,
                     sink_calls |-> r.sink_calls, sink_arg |-> r.sink_arg,
                     raised |-> r.raised, out |-> r.out]
        /\ UNCHANGED <<schema, error_handler>>

ValidatorCall ==
    /\ \E X \in Tables : FitTransform(X)
    /\ UNCHANGED <<pipelineVars, registryVars, builderVars, subframeVars, simpleVars, factoryVars, builtVars>>


(***************************************************************************)
(* transform/pipeline.py                                                   *)
(* A step is an object with a fit_transform and a transform; ft and tr say *)
(* what each does when called: "ok" (returns a table), or the exception it *)
(* raises. A table is the sequence of (step, operation) that produced it.  *)
(***************************************************************************)
MaxSteps == 3
StepKeys == {"start", "a", "b"}

Identity == [id |-> "Identity", ft |-> "ok", tr |-> "ok"]

SuppliedSteps ==
    { [id |-> "clean",       ft |-> "ok",                  tr |-> "ok"],
      [id |-> "no_fit",      ft |-> "NotImplementedError", tr |-> "ok"],
      [id |-> "abstract",    ft |-> "NotImplementedError", tr |-> "NotImplementedError"],
      [id |-> "bad_backoff", ft |-> "NotImplementedError", tr |-> "StageError"],
      [id |-> "broken",      ft |-> "StageError",          tr |-> "ok"] }

RECURSIVE SeqsUpTo(_, _)
SeqsUpTo(S, n) ==
    IF n = 0 THEN { <<>> }
    ELSE LET shorter == SeqsUpTo(S, n - 1)
         IN  shorter \cup { Append(q, x) : q \in { t \in shorter : Len(t) = n - 1 }, x \in S }

\* dict.update({key: step}) on an insertion-ordered dict: an existing key keeps
\* its position and takes the new value, a new key goes last.
DictSet(d, key, step) ==
    IF \E i \in 1 .. Len(d) : d[i].key = key
    THEN [i \in 1 .. Len(d) |-> IF d[i].key = key THEN [key |-> key, step |-> step] ELSE d[i]]
    ELSE Append(d, [key |-> key, step |-> step])

\* dict(pairs)
RECURSIVE DictOf(_, _)
DictOf(d, pairs) ==
    IF pairs = <<>> THEN d
    ELSE DictOf(DictSet(d, Head(pairs).key, Head(pairs).step), Tail(pairs))

\* Pipeline.__init__(*steps)
PipelineNew(given) == DictOf(<<>>, <<[key |-> "start", step |-> Identity]>> \o given)

\* One pass of the loop body for the step at position pos: the calls made,
\* the exception that leaves the loop (None when none does) and the new X.
StepBackoffAll(pos, step, X) ==
    LET first == [pos |-> pos, step |-> step.id, op |-> "fit_transform", X |-> X,
                  outcome |-> step.ft]
        second == [pos |-> pos, step |-> step.id, op |-> "transform", X |-> X,
                   outcome |-> step.tr]
    IN  IF step.ft = "ok"
        THEN [calls |-> <<first>>, raised |-> None,
              X |-> Append(X, <<step.id, "fit_transform">>)]
        ELSE [calls |-> <<first, second>>,
              raised |-> IF step.tr = "ok" THEN None ELSE step.tr,
              X |-> IF step.tr = "ok" THEN Append(X, <<step.id, "transform">>) ELSE X]

RunStep(pos, step, X) ==
    LET first == [pos |-> pos, step |-> step.id, op |-> "fit_transform", X |-> X,
                  outcome |-> step.ft]
        second == [pos |-> pos, step |-> step.id, op |-> "transform", X |-> X,
                   outcome |-> step.tr]
    IN  IF step.ft = "ok"
        THEN [calls |-> <<first>>, raised |-> None,
              X |-> Append(X, <<step.id, "fit_transform">>)]
        ELSE IF step.ft = "NotImplementedError"
        THEN [calls |-> <<first, second>>,
              raised |-> IF step.tr = "ok" THEN None ELSE step.tr,
              X |-> IF step.tr = "ok" THEN Append(X, <<step.id, "transform">>) ELSE X]
        ELSE [calls |-> <<first>>, raised |-> step.ft, X |-> X]

\* The for loop of Pipeline.fit_transform over self.steps.values().
RECURSIVE RunSteps(_, _, _, _)
RunSteps(d, pos, X, log) ==
    IF pos > Len(d) THEN [raised |-> None, X |-> X, log |-> log]
    ELSE LET r == RunStep(pos, d[pos].step, X)
         IN  IF r.raised # None
             THEN [raised |-> r.raised, X |-> X, log |-> log \o r.calls]
             ELSE RunSteps(d, pos + 1, r.X, log \o r.calls)

\* utils.timed: after the wrapped function has returned, the wrapper evaluates
\* datetime.fromtimestamp on the datetime module, which raises AttributeError;
\* an exception of the wrapped function passes through.
timed(r) == IF r.raised = None THEN [r EXCEPT !.raised = "AttributeError"] ELSE r

\* Pipeline.fit_transform(X), decorated by utils.timed
PipelineRun(d, X) == timed(RunSteps(d, 1, X, <<>>))

NoRun == [called |-> FALSE, n |-> 0, raised |-> None, X |-> <<>>, log |-> <<>>]

GivenSteps == [key : StepKeys, step : SuppliedSteps]

PipelineInit ==
    /\ supplied \in SeqsUpTo(GivenSteps, MaxSteps)
    /\ steps = PipelineNew(supplied)
    /\ prun = NoRun

PipelineIdle ==
    /\ supplied = <<>>
    /\ steps = PipelineNew(<<>>)
    /\ prun = NoRun

\* Pipeline.add_step(key, step)
add_step(key, step) ==
    /\ Len(supplied) < MaxSteps
    /\ steps' = DictSet(steps, key, step)
    /\ supplied' = Append(supplied, [key |-> key, step |-> step])
    /\ UNCHANGED prun

PipelineFitTransform ==
    LET r == PipelineRun(steps, <<>>)
    IN  /\ prun' = [called |-> TRUE, n |-> Len(steps), raised |-> r.raised, X |-> r.X,
                     log |-> r.log]
        /\ UNCHANGED <<steps, supplied>>

PipelineAddStep ==
    /\ \E g \in GivenSteps : add_step(g.key, g.step)
    /\ UNCHANGED <<validatorVars, registryVars, builderVars, subframeVars, simpleVars, factoryVars, builtVars>>

PipelineCall ==
    /\ PipelineFitTransform
    /\ UNCHANGED <<validatorVars, registryVars, builderVars, subframeVars, simpleVars, factoryVars, builtVars>>


(***************************************************************************)
(* schema/registry/local.py and s3.py: get is functools.lru_cache(maxsize= *)
(* None) around the method body. The wrapper looks the key up in its dict, *)
(* calls the body on a miss without holding any lock, then stores and      *)
(* returns the body's result. Threads interleave between these steps.      *)
(***************************************************************************)
MaxCalls == 2
Threads == {"t1", "t2"}
StoredKeys == {"k1", "k2"}
RegistryKeys == StoredKeys \cup {"absent"}
NoValue == <<>>

\* ISchemaRegistry.exists(key)
exists(key) == key \in StoredKeys

RegistryInit ==
    /\ cache = [k \in RegistryKeys |-> NoValue]
    /\ pc = [t \in Threads |-> "idle"]
    /\ arg = [t \in Threads |-> None]
    /\ local = [t \in Threads |-> NoValue]
    /\ reads = [k \in RegistryKeys |-> 0]
    /\ returned = [k \in RegistryKeys |-> {}]
    /\ ncalls = [t \in Threads |-> 0]

RegistryIdle == RegistryInit

\* a thread calls registry.get(key)
GetCall(t, key) ==
    /\ pc[t] = "idle"
    /\ ncalls[t] < MaxCalls
    /\ pc' = [pc EXCEPT ![t] = "lookup"]
    /\ arg' = [arg EXCEPT ![t] = key]
    /\ ncalls' = [ncalls EXCEPT ![t] = @ + 1]
    /\ UNCHANGED <<cache, local, reads, returned>>

\* lru_cache wrapper: cache hit returns the cached value
CacheHit(t) ==
    /\ pc[t] = "lookup"
    /\ cache[arg[t]] # NoValue
    /\ returned' = [returned EXCEPT ![arg[t]] = @ \cup {cache[arg[t]]}]
    /\ pc' = [pc EXCEPT ![t] = "idle"]
    /\ UNCHANGED <<cache, arg, local, reads, ncalls>>

\* lru_cache wrapper: cache miss goes on to call the body
CacheMiss(t) ==
    /\ pc[t] = "lookup"
    /\ cache[arg[t]] = NoValue
    /\ pc' = [pc EXCEPT ![t] = "body"]
    /\ UNCHANGED <<cache, arg, local, reads, returned, ncalls>>

\* the body of get for a key that does not exist: RegistryKeyError, nothing cached
GetRaises(t) ==
    /\ pc[t] = "body"
    /\ ~exists(arg[t])
    /\ pc' = [pc EXCEPT ![t] = "idle"]
    /\ UNCHANGED <<cache, arg, local, reads, returned, ncalls>>

\* the body of get: self.reader(path) constructs a SchemaModel
GetReads(t) ==
    /\ pc[t] = "body"
    /\ exists(arg[t])
    /\ reads' = [reads EXCEPT ![arg[t]] = @ + 1]
    /\ local' = [local EXCEPT ![t] = <<arg[t], reads[arg[t]] + 1>>]
    /\ pc' = [pc EXCEPT ![t] = "store"]
    /\ UNCHANGED <<cache, arg, returned, ncalls>>

\* lru_cache wrapper: cache[key] = result; return result
CacheStore(t) ==
    /\ pc[t] = "store"
    /\ cache' = [cache EXCEPT ![arg[t]] = local[t]]
    /\ returned' = [returned EXCEPT ![arg[t]] = @ \cup {local[t]}]
    /\ pc' = [pc EXCEPT ![t] = "idle"]
    /\ UNCHANGED <<arg, local, reads, ncalls>>

RegistryGetCall ==
    /\ \E t \in Threads, key \in RegistryKeys : GetCall(t, key)
    /\ UNCHANGED <<validatorVars, pipelineVars, builderVars, subframeVars, simpleVars, factoryVars, builtVars>>

RegistryCacheHit ==
    /\ \E t \in Threads : CacheHit(t)
    /\ UNCHANGED <<validatorVars, pipelineVars, builderVars, subframeVars, simpleVars, factoryVars, builtVars>>

RegistryCacheMiss ==
    /\ \E t \in Threads : CacheMiss(t)
    /\ UNCHANGED <<validatorVars, pipelineVars, builderVars, subframeVars, simpleVars, factoryVars, builtVars>>

RegistryGetRaises ==
    /\ \E t \in Threads : GetRaises(t)
    /\ UNCHANGED <<validatorVars, pipelineVars, builderVars, subframeVars, simpleVars, factoryVars, builtVars>>

RegistryGetReads ==
    /\ \E t \in Threads : GetReads(t)
    /\ UNCHANGED <<validatorVars, pipelineVars, builderVars, subframeVars, simpleVars, factoryVars, builtVars>>

RegistryCacheStore ==
    /\ \E t \in Threads : CacheStore(t)
    /\ UNCHANGED <<validatorVars, pipelineVars, builderVars, subframeVars, simpleVars, factoryVars, builtVars>>


(***************************************************************************)
(* Strings are sequences of one-character strings, so that strip and lower *)
(* do what Python's str.strip and str.lower do.                            *)
(***************************************************************************)
UpperLetters == <<"A", "B", "C", "D", "E", "F", "G", "H", "I", "J", "K", "L", "M", "N", "O", "P", "Q", "R", "S", "T", "U", "V", "W", "X", "Y", "Z">>
LowerLetters == <<"a", "b", "c", "d", "e", "f", "g", "h", "i", "j", "k", "l", "m", "n", "o", "p", "q", "r", "s", "t", "u", "v", "w", "x", "y", "z">>
Digits == {"0", "1", "2", "3", "4", "5", "6", "7", "8", "9"}
Whitespace == {" "}

isupper(c) == \E i \in 1 .. Len(UpperLetters) : UpperLetters[i] = c

lower_char(c) ==
    IF isupper(c)
    THEN LowerLetters[CHOOSE i \in 1 .. Len(UpperLetters) : UpperLetters[i] = c]
    ELSE c

\* str.lower()
lower(str) == [i \in 1 .. Len(str) |-> lower_char(str[i])]

upper_char(c) ==
    IF \E i \in 1 .. Len(LowerLetters) : LowerLetters[i] = c
    THEN UpperLetters[CHOOSE i \in 1 .. Len(LowerLetters) : LowerLetters[i] = c]
    ELSE c

\* str.upper()
upper(str) == [i \in 1 .. Len(str) |-> upper_char(str[i])]

\* str.lstrip(chars), str.rstrip(chars), str.strip(chars): only the ends are cut
RECURSIVE lstrip(_, _)
lstrip(str, chars) ==
    IF str # <<>> /\ Head(str) \in chars THEN lstrip(Tail(str), chars) ELSE str

RECURSIVE rstrip(_, _)
rstrip(str, chars) ==
    IF str # <<>> /\ str[Len(str)] \in chars
    THEN rstrip(SubSeq(str, 1, Len(str) - 1), chars)
    ELSE str

strip(str, chars) == rstrip(lstrip(str, chars), chars)

(***************************************************************************)
(* schema/spec/field.py: the field factory                                 *)
(***************************************************************************)
\* SchemaFieldTypes: normalized dtype -> SchemaFieldModel subclass
SchemaFieldTypes ==
    { <<<<"b", "o", "o", "l">>, "BooleanSchemaField">>,
      <<<<"b", "o", "o", "l", "e", "a", "n">>, "BooleanSchemaField">>,
      <<<<"c", "a", "t", "e", "g", "o", "r", "y">>, "CategorySchemaField">>,
      <<<<"c", "u", "r", "r", "e", "n", "c", "y">>, "DecimalSchemaField">>,
      <<<<"d", "a", "t", "e">>, "DateSchemaField">>,
      <<<<"d", "a", "t", "e", "t", "i", "m", "e">>, "DatetimeSchemaField">>,
      <<<<"f", "l", "o", "a", "t">>, "DecimalSchemaField">>,
      <<<<"d", "e", "c", "i", "m", "a", "l">>, "DecimalSchemaField">>,
      <<<<"e", "n", "u", "m">>, "CategorySchemaField">>,
      <<<<"i", "n", "t">>, "IntSchemaField">>,
      <<<<"u", "i", "n", "t">>, "IntSchemaField">>,
      <<<<"o", "b", "j", "e", "c", "t">>, "ObjectSchemaField">>,
      <<<<"s", "t", "r", "i", "n", "g">>, "StrSchemaField">>,
      <<<<"s", "s", "n">>, "StrSchemaField">>,
      <<<<"z", "i", "p", "c", "o", "d", "e">>, "StrSchemaField">> }

SchemaFieldKeys == { e[1] : e \in SchemaFieldTypes }

\* the normalization of SchemaField: dtype.strip(digits + whitespace).lower()
FieldTypeName(dtype) == lower(strip(dtype, Digits \cup Whitespace))

\* SchemaFieldTypes[name], "KeyError" for a name that is no key
FieldClass(name) ==
    IF name \in SchemaFieldKeys
    THEN (CHOOSE e \in SchemaFieldTypes : e[1] = name)[2]
    ELSE "KeyError"

\* SchemaFieldModel.pandas_upper_type_is_nullable(data): the exception it
\* raises, None when it returns. data["nullable"] is read whether or not it
\* was declared.
pandas_upper_type_is_nullable(decl) ==
    IF decl.nullable = "absent" THEN "KeyError"
    ELSE IF decl.dtype = <<>> THEN "IndexError"
    ELSE IF isupper(decl.dtype[1]) /\ decl.nullable = "False" THEN "ValidationError"
    ELSE None

\* SchemaField(**definition): the field built, or the exception raised.
\* decl is [index, dtype, nullable], nullable one of "True", "False", "absent".
\* The field keeps the dtype as declared, with the surrounding whitespace
\* stripped (str_strip_whitespace).
SchemaField(decl) ==
    LET dtype == IF decl.dtype = <<>> THEN <<"o", "b", "j", "e", "c", "t">> ELSE decl.dtype
        cls   == FieldClass(FieldTypeName(dtype))
        check == pandas_upper_type_is_nullable(decl)
    IN  IF cls = "KeyError" THEN [raised |-> "KeyError"]
        ELSE IF check # None THEN [raised |-> check]
        ELSE [raised |-> None, index |-> decl.index,
              dtype |-> strip(decl.dtype, Whitespace),
              cls |-> cls, nullable |-> (decl.nullable = "True")]

(***************************************************************************)
(* schema/builders/sqlalchemy.py                                           *)
(***************************************************************************)
SqlDtypes ==
    { <<<<"b", "o", "o", "l">>, "BOOLEAN">>,
      <<<<"b", "o", "o", "l", "e", "a", "n">>, "BOOLEAN">>,
      <<<<"b", "y", "t", "e", "s">>, "BINARY">>,
      <<<<"c", "a", "t", "e", "g", "o", "r", "y">>, "TEXT">>,
      <<<<"d", "e", "c", "i", "m", "a", "l">>, "FLOAT">>,
      <<<<"f", "l", "o", "a", "t">>, "FLOAT">>,
      <<<<"u", "i", "n", "t">>, "BIGINT">>,
      <<<<"i", "n", "t">>, "BIGINT">>,
      <<<<"i", "n", "t", "e", "g", "e", "r">>, "BIGINT">>,
      <<<<"d", "a", "t", "e", "t", "i", "m", "e">>, "DATETIME">>,
      <<<<"d", "a", "t", "e">>, "DATE">>,
      <<<<"p", "e", "r", "i", "o", "d">>, "DATE">>,
      <<<<"s", "t", "r", "i", "n", "g">>, "TEXT">>,
      <<<<"t", "i", "m", "e", "d", "e", "l", "t", "a">>, "TIME">>,
      <<<<"t", "i", "m", "e">>, "TIME">>,
      <<<<"c", "u", "r", "r", "e", "n", "c", "y">>, "FLOAT">>,
      <<<<"s", "s", "n">>, "TEXT">>,
      <<<<"z", "i", "p", "c", "o", "d", "e">>, "TEXT">> }

SqlDtypeKeys == { e[1] : e \in SqlDtypes }


\* TableBuilder.build_dtype(field): the SQL type, "KeyError" when the
\* lowercased, digit-stripped dtype is no key of SqlDtypes.
TableBuildDtype(field) ==
    LET type_name == strip(lower(field.dtype), Digits)
    IN  IF type_name \in SqlDtypeKeys
        THEN (CHOOSE e \in SqlDtypes : e[1] = type_name)[2]
        ELSE "KeyError"

\* TableBuilder.build_field(field)
TableBuildField(field) ==
    LET type_ == TableBuildDtype(field)
    IN  IF type_ = "KeyError" THEN [raised |-> "KeyError"]
        ELSE [raised |-> None, name |-> field.index, type_ |-> type_,
              nullable |-> field.nullable]

\* list(map(build_field, fields)), given each field's build_field outcome: the
\* first exception raised, or the list built
MapFields(built) ==
    LET failed == { i \in 1 .. Len(built) : built[i].raised # None }
    IN  IF failed = {} THEN [raised |-> None, items |-> built]
        ELSE [raised |-> built[CHOOSE i \in failed : \A k \in failed : i <= k].raised,
              items |-> <<>>]

\* sql.Table(name, metadata, *columns): a table already in the MetaData cannot
\* be defined again with columns; without columns the existing table is returned.
Table(name, md, columns) ==
    IF name \in md
    THEN IF columns # <<>>
         THEN [raised |-> "InvalidRequestError", metadata |-> md]
         ELSE [raised |-> None, table |-> [name |-> name, columns |-> <<>>, existing |-> TRUE],
               metadata |-> md]
    ELSE [raised |-> None,
          table |-> [name |-> name, columns |-> columns, existing |-> FALSE],
          metadata |-> md \cup {name}]

\* TableBuilder.build(schema, name, metadata)
TableBuild(fields, name, md) ==
    LET cols == MapFields([i \in 1 .. Len(fields) |-> TableBuildField(fields[i])])
    IN  IF cols.raised # None THEN [raised |-> cols.raised, metadata |-> md]
        ELSE Table(name, md, cols.items)

(***************************************************************************)
(* schema/builders/pandera.py                                              *)
(***************************************************************************)
\* DataFrameSchemaBuilder.build_dtype(field)
DataFrameBuildDtype(field) ==
    IF field.cls \in {"DateSchemaField", "DatetimeSchemaField"} THEN <<"DateTime">>
    ELSE IF field.cls = "BooleanSchemaField" THEN <<"LiteralBool">>
    ELSE IF field.dtype = <<"c", "u", "r", "r", "e", "n", "c", "y">> THEN <<"Currency">>
    ELSE IF field.dtype = <<"s", "s", "n">> THEN <<"SSN">>
    ELSE IF field.dtype = <<"z", "i", "p", "c", "o", "d", "e">> THEN <<"ZipCode">>
    ELSE field.dtype

\* DataFrameSchemaBuilder.build_field(field)
DataFrameBuildField(field) ==
    [raised |-> None, name |-> field.index, dtype |-> DataFrameBuildDtype(field),
     nullable |-> field.nullable]

\* DataFrameSchemaBuilder.build(schema)
DataFrameBuild(fields) ==
    LET cols == MapFields([i \in 1 .. Len(fields) |-> DataFrameBuildField(fields[i])])
    IN  [raised |-> cols.raised, columns |-> cols.items]

(***************************************************************************)
(* schema/builders/pydantic.py                                             *)
(***************************************************************************)
\* ModelBuilder.build_dtype(field): singledispatch on the field's class
ModelBuildDtype(field) ==
    CASE field.cls = "BooleanSchemaField"  -> "bool"
      [] field.cls = "StrSchemaField"      -> "Annotated[str, maxsize]"
      [] field.cls = "IntSchemaField"      -> "Annotated[int, lstrip0]"
      [] field.cls = "DateSchemaField"     -> "Annotated[date, isoparse]"
      [] field.cls = "DatetimeSchemaField" -> "Annotated[datetime, isoparse]"
      [] field.cls = "DecimalSchemaField"  -> "Annotated[float, rounded]"
      [] field.cls = "CategorySchemaField" -> "Annotated[StrEnum, lower, oneOf]"
      [] OTHER                             -> "object"

\* the (annotation, FieldInfo) pair ModelBuilder.build makes of a field
ModelBuildField(field) ==
    [raised |-> None, name |-> field.index, optional |-> field.nullable,
     dtype |-> ModelBuildDtype(field)]

\* ModelBuilder.build(schema)
ModelBuild(fields) ==
    LET attrs == MapFields([i \in 1 .. Len(fields) |-> ModelBuildField(fields[i])])
    IN  [raised |-> attrs.raised, attributes |-> attrs.items]


(***************************************************************************)
(* The builders, called on schemas the field factory has built.            *)
(***************************************************************************)
MaxFields == 2
TableNames == {"t1", "t2"}
Builders == {"TableBuilder", "DataFrameSchemaBuilder", "ModelBuilder"}

\* the dtype tokens declared: every key of SchemaFieldTypes, and two pandas aliases
DtypeTokens ==
    SchemaFieldKeys \cup { <<"I", "n", "t", "6", "4">>, <<"i", "n", "t", "3", "2">> }

\* the field the factory builds at position i for a dtype token
FieldOf(i, dtype) ==
    SchemaField([index |-> i, dtype |-> dtype,
                 nullable |-> IF isupper(dtype[1]) THEN "True" ELSE "False"])

\* the dtype tokens of the schemas that build is called on
SchemaTokens ==
    { <<"i", "n", "t">>, <<"I", "n", "t", "6", "4">>, <<"o", "b", "j", "e", "c", "t">> }

\* SchemaModel.fields of the schemas with at most MaxFields fields
SchemaFieldLists ==
    { [i \in 1 .. Len(toks) |-> FieldOf(i, toks[i])] : toks \in SeqsUpTo(SchemaTokens, MaxFields) }

\* builder.build(schema, ...) against the caller's MetaData
Build(builder, fields, name, md) ==
    IF builder = "TableBuilder"
    THEN LET r == TableBuild(fields, name, md)
         IN  [raised |-> r.raised, metadata |-> r.metadata,
              out |-> IF r.raised = None THEN r.table ELSE [kind |-> "none"]]
    ELSE IF builder = "DataFrameSchemaBuilder"
    THEN LET r == DataFrameBuild(fields)
         IN  [raised |-> r.raised, metadata |-> md,
              out |-> IF r.raised = None THEN [columns |-> r.columns] ELSE [kind |-> "none"]]
    ELSE LET r == ModelBuild(fields)
         IN  [raised |-> r.raised, metadata |-> md,
              out |-> IF r.raised = None THEN [attributes |-> r.attributes]
                      ELSE [kind |-> "none"]]

\* builder.build_field(field)
BuildField(builder, field) ==
    IF builder = "TableBuilder" THEN TableBuildField(field)
    ELSE IF builder = "DataFrameSchemaBuilder" THEN DataFrameBuildField(field)
    ELSE ModelBuildField(field)

NoBuild ==
    [op |-> "none", builder |-> None, fields |-> <<>>, name |-> None,
     raised |-> None, out |-> [kind |-> "none"],
     again |-> FALSE, first_raised |-> None, first_out |-> [kind |-> "none"]]

BuilderInit ==
    /\ metadata = {}
    /\ bcall = NoBuild

BuilderIdle == BuilderInit

\* a first call of builder.build with these arguments
BuilderBuild ==
    /\ \E builder \in Builders, fields \in SchemaFieldLists, name \in TableNames :
         LET r == Build(builder, fields, name, metadata)
         IN  /\ metadata' = r.metadata
             /\ bcall' = [op |-> "build", builder |-> builder, fields |-> fields,
                          name |-> name, raised |-> r.raised, out |-> r.out,
                          again |-> FALSE, first_raised |-> None,
                          first_out |-> [kind |-> "none"]]
    /\ UNCHANGED <<validatorVars, pipelineVars, registryVars, subframeVars, simpleVars, factoryVars, builtVars>>

\* the same call of builder.build once more: same schema, same name, same MetaData
BuilderBuildAgain ==
    /\ bcall.op = "build"
    /\ LET r == Build(bcall.builder, bcall.fields, bcall.name, metadata)
       IN  /\ metadata' = r.metadata
           /\ bcall' = [bcall EXCEPT !.raised = r.raised, !.out = r.out, !.again = TRUE,
                           !.first_raised = IF bcall.again THEN @ ELSE bcall.raised,
                           !.first_out = IF bcall.again THEN @ ELSE bcall.out]
    /\ UNCHANGED <<validatorVars, pipelineVars, registryVars, subframeVars, simpleVars, factoryVars, builtVars>>

\* builder.build_field on one field of the factory
BuilderBuildField ==
    /\ \E builder \in Builders, dtype \in DtypeTokens :
         LET field == FieldOf(1, dtype)
             r == BuildField(builder, field)
         IN  bcall' = [NoBuild EXCEPT !.op = "build_field", !.builder = builder,
                          !.fields = <<field>>, !.raised = r.raised]
    /\ UNCHANGED metadata
    /\ UNCHANGED <<validatorVars, pipelineVars, registryVars, subframeVars, simpleVars, factoryVars, builtVars>>


(***************************************************************************)
(* transform/subframe.py                                                   *)
(* The mask of a grid is the set of its non-null cells <<row, column>>,     *)
(* rows and columns counted from 0.                                        *)
(***************************************************************************)
GridColumns == 3
GridRows == {0, 1}
Cells == GridRows \X (0 .. (GridColumns - 1))

\* The grids are numbered: bit (row * GridColumns + column) of the number of a
\* grid says whether that cell is non-null. notnull[g] is the mask of grid g.
Grids == 0 .. (2 ^ Cardinality(Cells) - 1)
notnull ==
    [g \in Grids |-> { c \in Cells : (g \div (2 ^ (c[1] * GridColumns + c[2]))) % 2 = 1 }]

Abs(n) == IF n < 0 THEN -n ELSE n
Max(S) == CHOOSE n \in S : \A m \in S : m <= n
Min(S) == CHOOSE n \in S : \A m \in S : n <= m

\* skimage neighbourhood: connectivity 1 counts the 4 orthogonal neighbours,
\* connectivity 2 the diagonal ones as well
Neighbours(a, b, connectivity) ==
    /\ a # b
    /\ Abs(a[1] - b[1]) <= 1
    /\ Abs(a[2] - b[2]) <= 1
    /\ Abs(a[1] - b[1]) + Abs(a[2] - b[2]) <= connectivity

\* the connected component of a set of cells within the mask
RECURSIVE Component(_, _, _)
Component(mask, seen, connectivity) ==
    LET more == { c \in mask \ seen : \E s \in seen : Neighbours(c, s, connectivity) }
    IN  IF more = {} THEN seen ELSE Component(mask, seen \cup more, connectivity)

\* the first cell of a non-empty set in a row-major scan
FirstCell(S) ==
    CHOOSE c \in S : \A d \in S : c[1] < d[1] \/ (c[1] = d[1] /\ c[2] <= d[2])

\* the components in label order: labels are given in a row-major scan
RECURSIVE Components(_, _)
Components(mask, connectivity) ==
    IF mask = {} THEN <<>>
    ELSE LET comp == Component(mask, {FirstCell(mask)}, connectivity)
         IN  <<comp>> \o Components(mask \ comp, connectivity)

\* label(mask) with the connectivity argument left out: skimage then uses
\* the full connectivity, mask.ndim = 2
label(mask) == Components(mask, 2)

\* regionprops(label(mask)): the regions in label order, for every grid
regionprops == [g \in Grids |-> label(notnull[g])]

\* RegionProperties.bbox: (min_row, min_col, max_row, max_col), half-open
region_bbox(comp) ==
    << Min({ c[1] : c \in comp }), Min({ c[2] : c \in comp }),
       Max({ c[1] : c \in comp }) + 1, Max({ c[2] : c \in comp }) + 1 >>

\* RegionProperties.area_bbox
area_bbox(comp) ==
    LET b == region_bbox(comp) IN (b[3] - b[1]) * (b[4] - b[2])

\* SubframeExtractor.get_largest_region(regions): the 0-based index of the
\* first region of largest area_bbox, -1 for no regions
RECURSIVE LargestFrom(_, _, _, _)
LargestFrom(regions, i, largest_i, largest_size) ==
    IF i > Len(regions) THEN largest_i
    ELSE IF largest_i = -1 \/ area_bbox(regions[i]) > largest_size
    THEN LargestFrom(regions, i + 1, i - 1, area_bbox(regions[i]))
    ELSE LargestFrom(regions, i + 1, largest_i, largest_size)

get_largest_region(regions) == LargestFrom(regions, 1, -1, 0)

\* regions[i] with Python indexing: the 1-based position, 0 for IndexError
ListIndex(n, i) ==
    IF 0 <= i /\ i < n THEN i + 1
    ELSE IF i < 0 /\ -n <= i THEN n + i + 1
    ELSE 0

\* SubframeExtractor.fit(X): the new region and bbox, and the exception raised.
\* reg is <<>> for None and <<i>> for the index i.
fit(reg, box, X) ==
    LET regions == regionprops[X]
        reg1 == IF reg = <<>> THEN <<get_largest_region(regions)>> ELSE reg
        at == ListIndex(Len(regions), reg1[1])
    IN  IF at = 0
        THEN [raised |-> "IndexError", region |-> reg1, bbox |-> box]
        ELSE [raised |-> None, region |-> reg1, bbox |-> region_bbox(regions[at])]

\* SubframeExtractor.transform(X): the rows and columns of X.iloc[x1:x2, y1:y2]
\* that are returned as data, the row taken as column labels (-1 for none) and
\* whether set_index was applied.
transform(hdr, idx, box, X) ==
    LET rows == box[1] .. (box[3] - 1)
        cols == box[2] .. (box[4] - 1)
    IN  IF hdr # None
        THEN [rows |-> rows \ {box[1]}, cols |-> cols, labels |-> box[1],
              indexed |-> idx # None]
        ELSE [rows |-> rows, cols |-> cols, labels |-> -1, indexed |-> FALSE]

NoExtract ==
    [called |-> FALSE, X |-> {}, regions |-> <<>>, raised |-> None,
     out |-> [rows |-> {}, cols |-> {}, labels |-> -1, indexed |-> FALSE]]

RegionArgs == { <<>>, <<0>>, <<1>>, <<-1>> }

SubframeInit ==
    /\ ctor_region \in RegionArgs
    /\ region = ctor_region
    /\ header \in {None, "False", "True"}
    /\ index_col \in {None, "key"}
    /\ bbox = <<>>
    /\ scall = NoExtract

SubframeIdle ==
    /\ ctor_region = <<>>
    /\ region = <<>>
    /\ header = None
    /\ index_col = None
    /\ bbox = <<>>
    /\ scall = NoExtract

\* SubframeExtractor.fit_transform(X) = self.fit(X).transform(X)
SubframeFitTransform ==
    /\ \E X \in Grids :
         LET f == fit(region, bbox, X)
         IN  /\ region' = f.region
             /\ bbox' = f.bbox
             /\ scall' = [called |-> TRUE, X |-> notnull[X], regions |-> regionprops[X],
                          raised |-> f.raised,
                          out |-> IF f.raised = None
                                  THEN transform(header, index_col, f.bbox, X)
                                  ELSE NoExtract.out]
    /\ UNCHANGED <<ctor_region, header, index_col>>
    /\ UNCHANGED <<validatorVars, pipelineVars, registryVars, builderVars, simpleVars, factoryVars, builtVars>>

(***************************************************************************)
(* transform/simple.py: the Clean* transforms, on a column of one text     *)
(* cell. A cell is a sequence of characters.                               *)
(***************************************************************************)
MaxCell == 3
NumericChars == {"0", "1", ",", ".", "-", " "}
NumericCells == SeqsUpTo(NumericChars, MaxCell)

\* str.replace(ch, "")
remove(str, ch) == SelectSeq(str, LAMBDA c : c # ch)

\* int(s) returns: surrounding whitespace, an optional sign, digits
IsIntLiteral(s) ==
    LET t == strip(s, Whitespace)
        body == IF t # <<>> /\ t[1] = "-" THEN Tail(t) ELSE t
    IN  body # <<>> /\ \A i \in 1 .. Len(body) : body[i] \in Digits

\* float(s) returns: as int(s), with at most one decimal point among the digits
IsFloatLiteral(s) ==
    LET t == strip(s, Whitespace)
        body == IF t # <<>> /\ t[1] = "-" THEN Tail(t) ELSE t
    IN  /\ \A i \in 1 .. Len(body) : body[i] \in Digits \cup {"."}
        /\ \E i \in 1 .. Len(body) : body[i] \in Digits
        /\ Cardinality({ i \in 1 .. Len(body) : body[i] = "." }) <= 1

\* the chain of .str calls of CleanIntegers.transform and CleanFloats.transform
CleanedText(cell) ==
    remove(rstrip(lstrip(strip(cell, Whitespace), {"0"}), {"-", "."}), ",")

NoCell == [kind |-> "none", text |-> <<>>]

\* the body of CleanIntegers.transform (integer = TRUE) and of
\* CleanFloats.transform (integer = FALSE) on one cell: .replace({"": ...}) and
\* .astype(...), which raises ValueError for a text that is no literal
CleanNumber(integer, nullable, cell) ==
    LET text == CleanedText(cell)
    IN  IF text = <<>>
        THEN [raised |-> None,
              out |-> IF nullable THEN [kind |-> "null", text |-> <<>>]
                      ELSE [kind |-> "number", text |-> <<"0">>]]
        ELSE IF (integer /\ IsIntLiteral(text)) \/ (~integer /\ IsFloatLiteral(text))
        THEN [raised |-> None, out |-> [kind |-> "number", text |-> text]]
        ELSE [raised |-> "ValueError", out |-> NoCell]

TRUTHY == { <<"T", "R", "U", "E">>, <<"T">>, <<"Y", "E", "S">>, <<"Y">> }
FALSEY == { <<"F", "A", "L", "S", "E">>, <<"F">>, <<"N", "O">>, <<"N">> }
UNKNOWN ==
    { <<"N", "A">>, <<"N", "/", "A">>, <<"N", "U", "L", "L">>, <<"N", "O", "N", "E">>,
      <<"(", "B", "L", "A", "N", "K", ")">>, <<"U">>, <<"U", "N", "K", "N", "O", "W", "N">>,
      <<>> }

\* the text cells given to CleanBooleans
BooleanCells ==
    { <<"y">>, <<" ", "Y", "e", "s", " ">>, <<"T">>, <<"t", "r", "u", "e">>,
      <<"n", "o">>, <<"N", " ">>, <<"F">>, <<"f", "a", "l", "s", "e">>,
      <<"n", "/", "a">>, <<>>, <<" ">>, <<"(", "b", "l", "a", "n", "k", ")">>, <<"u">>,
      <<"N", "o", "n", "e">>, <<"m", "a", "y", "b", "e">>, <<" ", "O", "K">> }

\* the body of CleanBooleans.transform on one cell: .str.strip().str.upper(),
\* the three .replace calls, and .astype("boolean"), which raises TypeError
\* for a column that still holds text
CleanBoolean(cell) ==
    LET text == upper(strip(cell, Whitespace))
    IN  IF text \in TRUTHY THEN [raised |-> None, out |-> [kind |-> "True", text |-> <<>>]]
        ELSE IF text \in FALSEY THEN [raised |-> None, out |-> [kind |-> "False", text |-> <<>>]]
        ELSE IF text \in UNKNOWN THEN [raised |-> None, out |-> [kind |-> "null", text |-> <<>>]]
        ELSE [raised |-> "TypeError", out |-> NoCell]

\* a Clean* transform as the caller sees it: the body under utils.timed
CleanCall(op, nullable, cell, body) ==
    [op |-> op, nullable |-> nullable, cell |-> cell, body_raised |-> body.raised,
     body_out |-> body.out, raised |-> timed(body).raised]

NoClean ==
    [op |-> "none", nullable |-> FALSE, cell |-> <<>>, body_raised |-> None,
     body_out |-> NoCell, raised |-> None]

\* CleanIntegers(schema).transform(X)
CleanIntegers ==
    /\ ccall = NoClean
    /\ \E nullable \in BOOLEAN, cell \in NumericCells :
         ccall' = CleanCall("CleanIntegers", nullable, cell, CleanNumber(TRUE, nullable, cell))
    /\ UNCHANGED rcall
    /\ UNCHANGED <<validatorVars, pipelineVars, registryVars, builderVars, subframeVars,
                   factoryVars, builtVars>>

\* CleanFloats(schema).transform(X)
CleanFloats ==
    /\ ccall = NoClean
    /\ \E nullable \in BOOLEAN, cell \in NumericCells :
         ccall' = CleanCall("CleanFloats", nullable, cell, CleanNumber(FALSE, nullable, cell))
    /\ UNCHANGED rcall
    /\ UNCHANGED <<validatorVars, pipelineVars, registryVars, builderVars, subframeVars,
                   factoryVars, builtVars>>

\* CleanBooleans(schema).transform(X)
CleanBooleans ==
    /\ ccall = NoClean
    /\ \E cell \in BooleanCells :
         ccall' = CleanCall("CleanBooleans", TRUE, cell, CleanBoolean(cell))
    /\ UNCHANGED rcall
    /\ UNCHANGED <<validatorVars, pipelineVars, registryVars, builderVars, subframeVars,
                   factoryVars, builtVars>>

(***************************************************************************)
(* transform/simple.py: RenameAliases. The schema's columns are a sequence *)
(* of [name, title, aliases], aliases being metadata["aliases"]; X.columns *)
(* is a sequence of labels.                                                *)
(***************************************************************************)
MaxColumns == 2
FieldTitles == {None, "A", "B", "a"}
FieldAliases == {"x", "y"}
ColumnLabels == {"a", "b", "A", "B", "x", "y", "z"}

\* schema.columns: two columns, named a and b
RenameSchemas ==
    { << [name |-> "a", title |-> ta, aliases |-> sa],
         [name |-> "b", title |-> tb, aliases |-> sb] >> :
        ta \in FieldTitles, tb \in FieldTitles,
        sa \in SUBSET FieldAliases, sb \in SUBSET FieldAliases }

\* X.columns: distinct labels
ColumnLists ==
    { c \in SeqsUpTo(ColumnLabels, MaxColumns) :
        \A i \in 1 .. Len(c) : \A j \in 1 .. Len(c) : c[i] = c[j] => i = j }

InColumns(l, columns) == \E i \in 1 .. Len(columns) : columns[i] = l

\* the value a dict comprehension over the schema's columns leaves for a key:
\* that of the last column that gives the key, the key itself when none does.
\* at is the set of positions of the columns that give the key.
LastName(fields, at, l) ==
    IF at = {} THEN l ELSE fields[CHOOSE i \in at : \A k \in at : k <= i].name

\* aliases.get(l, l) for the dict aliases of RenameAliases.transform
aliases(fields, columns, l) ==
    LastName(fields,
             { i \in 1 .. Len(fields) : l \in fields[i].aliases /\ InColumns(l, columns) }, l)

\* titles.get(l, l) for the dict titles of RenameAliases.transform
titles(fields, columns, l) ==
    LastName(fields,
             { i \in 1 .. Len(fields) : fields[i].title = l /\ InColumns(l, columns) }, l)

\* RenameAliases.transform(X): X.rename(columns=aliases).rename(columns=titles),
\* both dicts made from the labels of X
RenameAliasesTransform(fields, columns) ==
    LET renamed == [i \in 1 .. Len(columns) |-> aliases(fields, columns, columns[i])]
    IN  [i \in 1 .. Len(columns) |-> titles(fields, columns, renamed[i])]

NoRename == [called |-> FALSE, schema |-> <<>>, X |-> <<>>, raised |-> None, out |-> <<>>]

\* RenameAliases(schema).transform(X)
RenameAliases ==
    /\ rcall = NoRename
    /\ \E fields \in RenameSchemas, columns \in ColumnLists :
         rcall' = [called |-> TRUE, schema |-> fields, X |-> columns, raised |-> None,
                   out |-> RenameAliasesTransform(fields, columns)]
    /\ UNCHANGED ccall
    /\ UNCHANGED <<validatorVars, pipelineVars, registryVars, builderVars, subframeVars,
                   factoryVars, builtVars>>

SimpleInit ==
    /\ ccall = NoClean
    /\ rcall = NoRename

SimpleIdle == SimpleInit

(***************************************************************************)
(* schema/spec/field.py, schema/spec/schema.py: the two factories          *)
(***************************************************************************)
MAX_DECIMAL_SCALE == 131072
MAX_DECIMAL_PRECISION == 16383

\* get_pandas_safe_type() of each class of the dispatch table
get_pandas_safe_type(cls) ==
    CASE cls = "BooleanSchemaField"  -> "string"
      [] cls = "DateSchemaField"     -> "string"
      [] cls = "DatetimeSchemaField" -> "string"
      [] cls = "DecimalSchemaField"  -> "Float64"
      [] cls = "CategorySchemaField" -> "string"
      [] cls = "IntSchemaField"      -> "Int64"
      [] cls = "ObjectSchemaField"   -> "object"
      [] cls = "StrSchemaField"      -> "string"

\* DecimalSchemaField: scale and precision of the validated field. A property
\* of the declaration is <<>> when it is not declared and <<v>> when it is; the
\* class declares a default for each and no validator.
DecimalSchemaField(decl) ==
    [scale     |-> IF decl.scale = <<>> THEN MAX_DECIMAL_SCALE ELSE decl.scale[1],
     precision |-> IF decl.precision = <<>> THEN MAX_DECIMAL_PRECISION
                   ELSE decl.precision[1]]

\* the class SchemaField looks up for a declaration, "KeyError" when there is none
SelectedClass(decl) ==
    FieldClass(FieldTypeName(IF decl.dtype = <<>> THEN <<"o", "b", "j", "e", "c", "t">>
                             ELSE decl.dtype))

\* the index values declared
FieldIndexes == {1, 2, 3}

\* the dtype tokens SchemaField is called with
FactoryTokens ==
    { <<"i", "n", "t">>, <<"i", "n", "t", "3", "2">>, <<"I", "N", "T", " ">>,
      <<"I", "n", "t", "6", "4">>, <<" ", "i", "n", "t">>, <<"i", "1", "n", "t">>,
      <<"i", "n", " ", "t">>, <<"x", "y", "z">>, <<>>,
      <<"c", "a", "t", "e", "g", "o", "r", "y">>, <<"c", "u", "r", "r", "e", "n", "c", "y">>,
      <<"C", "u", "r", "r", "e", "n", "c", "y">>,
      <<"s", "s", "n">>, <<"z", "i", "p", "c", "o", "d", "e">>,
      <<"d", "e", "c", "i", "m", "a", "l">>, <<"f", "l", "o", "a", "t", "6", "4">> }

ScaleValues == { <<>>, <<0>>, <<MAX_DECIMAL_SCALE>>, <<MAX_DECIMAL_SCALE + 1>> }
PrecisionValues == { <<>>, <<0>>, <<MAX_DECIMAL_PRECISION>>, <<MAX_DECIMAL_PRECISION + 1>> }

\* the field declarations SchemaField is called with
FieldDecls ==
    [index : {1}, dtype : FactoryTokens, nullable : {"True", "False", "absent"},
     scale : ScaleValues, precision : PrecisionValues]

\* the field declarations of the schema declarations Schema is called with
SchemaDtypes ==
    { <<"i", "n", "t">>, <<"I", "n", "t", "6", "4">>,
      <<"c", "u", "r", "r", "e", "n", "c", "y">>, <<"x", "y", "z">> }

SchemaDecls ==
    [index : FieldIndexes, dtype : SchemaDtypes, nullable : {"True", "False"},
     scale : { <<>> }, precision : { <<>> }]

\* the place of f in a list t already in order: after every field of lower
\* index, before the fields of equal index (f came first in the declaration)
InsertField(f, t) ==
    LET k == Cardinality({ i \in 1 .. Len(t) : t[i].index < f.index })
    IN  SubSeq(t, 1, k) \o <<f>> \o SubSeq(t, k + 1, Len(t))

\* sorted(fields, key=lambda f: f.index), a stable sort
RECURSIVE sorted(_)
sorted(fields) ==
    IF fields = <<>> THEN <<>>
    ELSE InsertField(Head(fields), sorted(Tail(fields)))

\* the fields in the order they are declared
coerce_fields_unsorted(decls) ==
    LET built == [i \in 1 .. Len(decls) |-> SchemaField(decls[i])]
        bad   == { i \in 1 .. Len(decls) : built[i].raised # None }
    IN  IF bad # {} THEN [raised |-> built[Min(bad)].raised, fields |-> <<>>]
        ELSE [raised |-> None, fields |-> built]

\* SchemaModel.coerce_fields(fields): every declaration goes through
\* SchemaField in turn, the first exception ends the call, and the fields
\* built are sorted on their index.
coerce_fields(decls) ==
    LET built == [i \in 1 .. Len(decls) |-> SchemaField(decls[i])]
        bad   == { i \in 1 .. Len(decls) : built[i].raised # None }
    IN  IF bad # {} THEN [raised |-> built[Min(bad)].raised, fields |-> <<>>]
        ELSE [raised |-> None, fields |-> sorted(built)]

\* SchemaModel.dtype, in the order of the fields: the safe-read type of each
dtype(fields) == [i \in 1 .. Len(fields) |-> get_pandas_safe_type(fields[i].cls)]

NoMake ==
    [op |-> "none", decls |-> <<>>, selected |-> <<>>, raised |-> None,
     fields |-> <<>>, extra |-> <<>>, dtype |-> <<>>]

\* the record of one SchemaField(**decl) call: the class looked up, the
\* exception raised or the field built, its decimal properties and its
\* safe-read type
MakeField(decl) ==
    LET f == SchemaField(decl)
    IN  [op |-> "SchemaField", decls |-> <<decl>>, selected |-> <<SelectedClass(decl)>>,
         raised |-> f.raised,
         fields |-> IF f.raised = None THEN <<f>> ELSE <<>>,
         extra  |-> IF f.raised = None /\ f.cls = "DecimalSchemaField"
                    THEN <<DecimalSchemaField(decl)>> ELSE <<>>,
         dtype  |-> IF f.raised = None THEN <<get_pandas_safe_type(f.cls)>> ELSE <<>>]

\* the record of one Schema(fields=decls) call
Schema(decls) ==
    LET r == coerce_fields(decls)
    IN  [op |-> "Schema", decls |-> decls,
         selected |-> [i \in 1 .. Len(decls) |-> SelectedClass(decls[i])],
         raised |-> r.raised, fields |-> r.fields, extra |-> <<>>,
         dtype |-> dtype(r.fields)]

FactoryInit == fcall = NoMake

FactoryIdle == FactoryInit

\* SchemaField(**decl)
FactorySchemaField ==
    /\ fcall = NoMake
    /\ \E decl \in FieldDecls : fcall' = MakeField(decl)
    /\ UNCHANGED <<validatorVars, pipelineVars, registryVars, builderVars, subframeVars,
                   simpleVars, builtVars>>

\* Schema(fields=decls)
FactorySchema ==
    /\ fcall = NoMake
    /\ \E decls \in SeqsUpTo(SchemaDecls, MaxFields) : fcall' = Schema(decls)
    /\ UNCHANGED <<validatorVars, pipelineVars, registryVars, builderVars, subframeVars,
                   simpleVars, builtVars>>

(***************************************************************************)
(* schema/builders/pydantic.py: the attributes of the record model.        *)
(* A number is held in hundredths; a text is a sequence of characters.     *)
(***************************************************************************)
MaxText == 3
IntChars == {"0", "7", " ", "x"}
IntTexts == SeqsUpTo(IntChars, MaxText)

DigitChars == <<"0", "1", "2", "3", "4", "5", "6", "7", "8", "9">>

RECURSIVE DigitsValue(_)
\* the number a sequence of decimal digits denotes
DigitsValue(s) ==
    IF s = <<>> THEN 0
    ELSE 10 * DigitsValue(SubSeq(s, 1, Len(s) - 1))
         + (CHOOSE i \in 1 .. Len(DigitChars) : DigitChars[i] = s[Len(s)]) - 1

\* int(s) for a text that is an int literal
IntValue(s) ==
    LET t == strip(s, Whitespace)
    IN  IF t[1] = "-" THEN 0 - DigitsValue(Tail(t)) ELSE DigitsValue(t)

\* the Int attribute on a text: the BeforeValidator
\* int(x.strip().lstrip("0")) or 0, whose ValueError pydantic reports as a
\* validation error, then the int validation of the number
IntAttribute(x) ==
    LET t == lstrip(strip(x, Whitespace), {"0"})
    IN  IF IsIntLiteral(t) THEN [raised |-> None, out |-> <<IntValue(t)>>]
        ELSE [raised |-> "ValidationError", out |-> <<>>]

\* one hundred hundredths
Unit == 100

\* the values given to a Decimal attribute, in hundredths; none lies half way
\* between two neighbours at one or no decimal
DecimalValues == {0, 1, 9, 12, 99, 123, 149, 151, 999, 1234, 12340, 99949}

RECURSIVE Power10(_)
Power10(n) == IF n = 0 THEN 1 ELSE 10 * Power10(n - 1)

\* round(x, ndigits) of a float that is a whole number of hundredths
round(x, ndigits) ==
    IF ndigits >= 2 THEN x
    ELSE LET step == Power10(2 - ndigits)
             q    == x \div step
             r    == x % step
         IN  IF 2 * r > step THEN (q + 1) * step ELSE q * step

\* rounded(x, precision, scale) for a float x. scale is [float, value]:
\* round takes an int for ndigits and raises TypeError for a float.
\* precision is not read.
rounded(x, precision, scale) ==
    IF scale.float THEN [raised |-> "TypeError", out |-> <<>>]
    ELSE [raised |-> None, out |-> <<round(x, scale.value)>>]

\* the declarations of the Decimal fields the record model is built from
DecimalDecls ==
    [index : {1}, dtype : { <<"d", "e", "c", "i", "m", "a", "l">> }, nullable : {"False"},
     scale : { <<>>, <<1>>, <<2>> }, precision : { <<>>, <<2>>, <<3>>, <<5>> }]

\* the Decimal attribute on a float: the AfterValidator
\* partial(rounded, scale=field.scale, precision=field.precision). A declared
\* scale is a float (the field is Optional[float]); the default is the int
\* MAX_DECIMAL_SCALE.
DecimalAttribute(decl, x) ==
    LET field == DecimalSchemaField(decl)
    IN  rounded(x, field.precision,
                [float |-> decl.scale # <<>>, value |-> field.scale])

\* the Python values a field declares as its default
Defaults == {"None", "0", "1", "False", "True", "''", "'x'"}

\* the values bool() gives False for
Falsy == {"None", "0", "False", "''"}

\* the default of the FieldInfo that ModelBuilder.build_field makes:
\* field.default or (... if field.required else None)
ModelFieldDefault(default, required) ==
    IF default \notin Falsy THEN default
    ELSE IF required THEN "..." ELSE "None"

NoModel ==
    [op |-> "none", x |-> <<>>, decl |-> <<>>, required |-> FALSE,
     raised |-> None, out |-> <<>>]

\* Model(a=x) for an Int attribute a and a text x
ModelInt ==
    /\ mcall.op = "none"
    /\ \E x \in IntTexts :
         LET r == IntAttribute(x)
         IN  mcall' = [op |-> "Int", x |-> x, decl |-> <<>>, required |-> FALSE,
                       raised |-> r.raised, out |-> r.out]
    /\ UNCHANGED ecall
    /\ UNCHANGED <<validatorVars, pipelineVars, registryVars, builderVars, subframeVars,
                   simpleVars, factoryVars>>

\* Model(a=x) for a Decimal attribute a and a float x
ModelDecimal ==
    /\ mcall.op = "none"
    /\ \E decl \in DecimalDecls, x \in DecimalValues :
         LET r == DecimalAttribute(decl, x)
         IN  mcall' = [op |-> "Decimal", x |-> <<x>>, decl |-> <<decl>>,
                       required |-> FALSE, raised |-> r.raised, out |-> r.out]
    /\ UNCHANGED ecall
    /\ UNCHANGED <<validatorVars, pipelineVars, registryVars, builderVars, subframeVars,
                   simpleVars, factoryVars>>

\* ModelBuilder.build_field(field)
ModelBuildFieldCall ==
    /\ mcall.op = "none"
    /\ \E default \in Defaults, required \in BOOLEAN :
         mcall' = [op |-> "build_field", x |-> <<default>>, decl |-> <<>>,
                   required |-> required, raised |-> None,
                   out |-> <<ModelFieldDefault(default, required)>>]
    /\ UNCHANGED ecall
    /\ UNCHANGED <<validatorVars, pipelineVars, registryVars, builderVars, subframeVars,
                   simpleVars, factoryVars>>

(***************************************************************************)
(* schema/builders/pandera.py put to use by transform/simple.py,           *)
(* transform/protected.py and EasyValidate of transform/pipeline.py.       *)
(* A field is [name, title, aliases, protect]; a table is the sequence of  *)
(* its column labels.                                                      *)
(***************************************************************************)
\* the fields of the schemas built: a and b, with their source-side names
BuiltSchemas ==
    { << [name |-> "a", title |-> "A", aliases |-> sa, protect |-> pa],
         [name |-> "b", title |-> "B", aliases |-> sb, protect |-> pb] >> :
        sa \in SUBSET {"x"}, sb \in SUBSET {"y"}, pa \in BOOLEAN, pb \in BOOLEAN }

\* the labels of the tables given: titles, aliases, and a label of no field
SourceLabels == {"A", "B", "x", "y", "z"}

SourceColumnLists ==
    { c \in SeqsUpTo(SourceLabels, MaxColumns) :
        \A i \in 1 .. Len(c) : \A j \in 1 .. Len(c) : c[i] = c[j] => i = j }

\* the metadata dict DataFrameSchemaBuilder.build_field gives the column: its
\* four keys, with the field's protect flag and no fixed-width position
ColumnMetadata(field) ==
    [key \in {"start", "end", "length", "protect"} |->
        IF key = "protect" THEN field.protect ELSE FALSE]

\* the pa.Column of DataFrameSchemaBuilder.build_field, as the transforms read it
BuiltColumn(field) ==
    [name |-> field.name, title |-> field.title, metadata |-> ColumnMetadata(field)]

\* DataFrameSchemaBuilder.build(schema).columns
BuiltColumns(fields) == [i \in 1 .. Len(fields) |-> BuiltColumn(fields[i])]

\* what RenameAliases.transform reads of a column:
\* (getattr(column, "metadata") or {}).get("aliases", [])
AliasesOf(column) ==
    IF "aliases" \in DOMAIN column.metadata THEN column.metadata["aliases"] ELSE {}

RenameColumns(columns) ==
    [i \in 1 .. Len(columns) |->
        [name |-> columns[i].name, title |-> columns[i].title,
         aliases |-> AliasesOf(columns[i])]]

\* Protector.protected_attributes: the columns whose metadata has a true
\* value under "protected"
protected_attributes(columns) ==
    { columns[i].name : i \in { k \in 1 .. Len(columns) :
          /\ "protected" \in DOMAIN columns[k].metadata
          /\ columns[k].metadata["protected"] } }

\* HashProtectedAttributes.transform(X): the columns hashed; X[column] raises
\* KeyError for a column X lacks
HashProtected(columns, X) ==
    LET todo == protected_attributes(columns)
    IN  IF \A c \in todo : InColumns(c, X)
        THEN [raised |-> None, hashed |-> todo]
        ELSE [raised |-> "KeyError", hashed |-> {}]

\* the stages of EasyValidate(schema, protect): a stage's fit_transform is
\* TransformerMixin's fit(X).transform(X). EasyPreprocess is a Pipeline whose
\* first stage after Identity is CleanStrings, and CleanStrings.transform is
\* decorated by utils.timed.
EasyStages(columns, X, protect) ==
    << [key |-> "rename",     step |-> [id |-> "rename", ft |-> "ok", tr |-> "ok"]],
       [key |-> "preprocess",
        step |-> [id |-> "preprocess",
                  ft |-> timed([raised |-> None]).raised,
                  tr |-> "NotImplementedError"]],
       [key |-> "validate",   step |-> [id |-> "validate", ft |-> "ok", tr |-> "ok"]] >>
    \o IF protect
       THEN << [key |-> "protect",
                step |-> [id |-> "protect",
                          ft |-> IF HashProtected(columns, X).raised = None THEN "ok"
                                 ELSE HashProtected(columns, X).raised,
                          tr |-> "ok"]] >>
       ELSE <<>>

\* EasyValidate(schema, protect).fit_transform(X): the columns after the
\* rename stage, the columns hashed when the protect stage ran, the exception
EasyValidate(columns, X, protect) ==
    LET run == PipelineRun(PipelineNew(EasyStages(columns, X, protect)), <<>>)
        ran(id) == \E i \in 1 .. Len(run.log) :
                      run.log[i].step = id /\ run.log[i].outcome = "ok"
    IN  [raised |-> run.raised,
         out    |-> IF ran("rename") THEN RenameAliasesTransform(RenameColumns(columns), X)
                    ELSE X,
         hashed |-> IF ran("protect") THEN HashProtected(columns, X).hashed ELSE {}]

NoEasy ==
    [op |-> "none", fields |-> <<>>, X |-> <<>>, protect |-> FALSE, raised |-> None,
     out |-> <<>>, hashed |-> {}]

\* RenameAliases(DataFrameSchemaBuilder.build(schema)).transform(X)
BuiltRenameAliases ==
    /\ ecall.op = "none"
    /\ \E fields \in BuiltSchemas, X \in SourceColumnLists :
         ecall' = [op |-> "RenameAliases", fields |-> fields, X |-> X, protect |-> FALSE,
                   raised |-> None,
                   out |-> RenameAliasesTransform(RenameColumns(BuiltColumns(fields)), X),
                   hashed |-> {}]
    /\ UNCHANGED mcall
    /\ UNCHANGED <<validatorVars, pipelineVars, registryVars, builderVars, subframeVars,
                   simpleVars, factoryVars>>

\* HashProtectedAttributes(DataFrameSchemaBuilder.build(schema)).transform(X)
BuiltHashProtected ==
    /\ ecall.op = "none"
    /\ \E fields \in BuiltSchemas, X \in SourceColumnLists :
         LET r == HashProtected(BuiltColumns(fields), X)
         IN  ecall' = [op |-> "HashProtectedAttributes", fields |-> fields, X |-> X,
                       protect |-> TRUE, raised |-> r.raised, out |-> X,
                       hashed |-> r.hashed]
    /\ UNCHANGED mcall
    /\ UNCHANGED <<validatorVars, pipelineVars, registryVars, builderVars, subframeVars,
                   simpleVars, factoryVars>>

\* EasyValidate(DataFrameSchemaBuilder.build(schema), protect).fit_transform(X)
BuiltEasyValidate ==
    /\ ecall.op = "none"
    /\ \E fields \in BuiltSchemas, X \in SourceColumnLists, protect \in BOOLEAN :
         LET r == EasyValidate(BuiltColumns(fields), X, protect)
         IN  ecall' = [op |-> "EasyValidate", fields |-> fields, X |-> X,
                       protect |-> protect, raised |-> r.raised, out |-> r.out,
                       hashed |-> r.hashed]
    /\ UNCHANGED mcall
    /\ UNCHANGED <<validatorVars, pipelineVars, registryVars, builderVars, subframeVars,
                   simpleVars, factoryVars>>

BuiltInit ==
    /\ mcall = NoModel
    /\ ecall = NoEasy

BuiltIdle == BuiltInit

(***************************************************************************)
(* Specifications, one per component                                       *)
(***************************************************************************)
InitValidator ==
    ValidatorInit /\ PipelineIdle /\ RegistryIdle /\ BuilderIdle /\ SubframeIdle
    /\ SimpleIdle /\ FactoryIdle /\ BuiltIdle
NextValidator == ValidatorCall
SpecValidator == InitValidator /\ [][NextValidator]_vars

InitPipeline ==
    ValidatorIdle /\ PipelineInit /\ RegistryIdle /\ BuilderIdle /\ SubframeIdle
    /\ SimpleIdle /\ FactoryIdle /\ BuiltIdle
NextPipeline == PipelineAddStep \/ PipelineCall
SpecPipeline == InitPipeline /\ [][NextPipeline]_vars

InitRegistry ==
    ValidatorIdle /\ PipelineIdle /\ RegistryInit /\ BuilderIdle /\ SubframeIdle
    /\ SimpleIdle /\ FactoryIdle /\ BuiltIdle
NextRegistry ==
    \/ RegistryGetCall
    \/ RegistryCacheHit
    \/ RegistryCacheMiss
    \/ RegistryGetRaises
    \/ RegistryGetReads
    \/ RegistryCacheStore
SpecRegistry == InitRegistry /\ [][NextRegistry]_vars

InitBuilders ==
    ValidatorIdle /\ PipelineIdle /\ RegistryIdle /\ BuilderInit /\ SubframeIdle
    /\ SimpleIdle /\ FactoryIdle /\ BuiltIdle
NextBuilders == BuilderBuild \/ BuilderBuildAgain \/ BuilderBuildField
SpecBuilders == InitBuilders /\ [][NextBuilders]_vars

InitSubframe ==
    ValidatorIdle /\ PipelineIdle /\ RegistryIdle /\ BuilderIdle /\ SubframeInit
    /\ SimpleIdle /\ FactoryIdle /\ BuiltIdle
NextSubframe == SubframeFitTransform
SpecSubframe == InitSubframe /\ [][NextSubframe]_vars

InitCleaners ==
    ValidatorIdle /\ PipelineIdle /\ RegistryIdle /\ BuilderIdle /\ SubframeIdle
    /\ SimpleInit /\ FactoryIdle /\ BuiltIdle
NextCleaners == CleanIntegers \/ CleanFloats \/ CleanBooleans
SpecCleaners == InitCleaners /\ [][NextCleaners]_vars

InitRename ==
    ValidatorIdle /\ PipelineIdle /\ RegistryIdle /\ BuilderIdle /\ SubframeIdle
    /\ SimpleInit /\ FactoryIdle /\ BuiltIdle
NextRename == RenameAliases
SpecRename == InitRename /\ [][NextRename]_vars

InitFactory ==
    ValidatorIdle /\ PipelineIdle /\ RegistryIdle /\ BuilderIdle /\ SubframeIdle
    /\ SimpleIdle /\ FactoryInit /\ BuiltIdle
NextFactory == FactorySchemaField \/ FactorySchema
SpecFactory == InitFactory /\ [][NextFactory]_vars

InitModel ==
    ValidatorIdle /\ PipelineIdle /\ RegistryIdle /\ BuilderIdle /\ SubframeIdle
    /\ SimpleIdle /\ FactoryIdle /\ BuiltInit
NextModel == ModelInt \/ ModelDecimal \/ ModelBuildFieldCall
SpecModel == InitModel /\ [][NextModel]_vars

InitBuilt ==
    ValidatorIdle /\ PipelineIdle /\ RegistryIdle /\ BuilderIdle /\ SubframeIdle
    /\ SimpleIdle /\ FactoryIdle /\ BuiltInit
NextBuilt == BuiltRenameAliases \/ BuiltHashProtected \/ BuiltEasyValidate
SpecBuilt == InitBuilt /\ [][NextBuilt]_vars

Init == InitValidator
Next == NextValidator
Spec == SpecValidator


(***************************************************************************)
(* Validator                                                               *)
(***************************************************************************)
\* the rows of X that have no column-level failure
ValidRows(X) == X.rows \ { cell[1] : cell \in BadCells(X) }

\* C1: with a sink that does not raise, fit_transform on a table that lacks
\* declared columns does not fail and returns a table whose column set is
\* exactly the schema's column set.
C1_OutputColumnsEqualSchema ==
    (vcall.called /\ error_handler # "raise" /\ vcall.X.cols \subseteq SchemaColumns)
        => (vcall.raised = None /\ vcall.out.cols = SchemaColumns)

\* C2: a fit_transform call that returns, returns exactly the input rows that
\* have no column-level failure.
C2_ReturnsExactlyValidRows ==
    (vcall.called /\ vcall.raised = None) => vcall.out.rows = ValidRows(vcall.X)

\* C3: with the logging or the no-op sink, fit_transform does not raise, and
\* when the input has failures it hands all of them to the sink in one call.
C3_NonRaisingSinkContinues ==
    (vcall.called /\ error_handler \in {"log", "noop"})
        => /\ vcall.raised = None
           /\ vcall.cases # {} => (vcall.sink_calls = 1 /\ vcall.sink_arg = vcall.cases)

(***************************************************************************)
(* Pipeline                                                                *)
(***************************************************************************)
\* the table that results from fit_transform of Identity and then of each
\* supplied step, in the order supplied
RECURSIVE FoldSupplied(_, _)
FoldSupplied(X, given) ==
    IF given = <<>> THEN X
    ELSE FoldSupplied(Append(X, <<Head(given).step.id, "fit_transform">>), Tail(given))

\* C4: when every supplied step's fit_transform returns, a run returns the
\* table obtained by applying Identity and then every supplied step in the
\* order given.
C4_RunFoldsSuppliedSteps ==
    (prun.called /\ \A i \in 1 .. Len(supplied) : supplied[i].step.ft = "ok")
        => /\ prun.raised = None
           /\ prun.X = FoldSupplied(<<<<"Identity", "fit_transform">>>>, supplied)

\* C5: after a fit_transform that raised NotImplementedError the next call is
\* the same step's transform on the same table, and when that returns the run
\* goes on with the next step on the table returned; any other exception of a
\* step is the last call of the run and is what the caller gets.
C5_BackoffOnlyOnNotImplemented ==
    prun.called =>
        \A i \in 1 .. Len(prun.log) :
            LET c == prun.log[i]
                backoff == c.op = "fit_transform" /\ c.outcome = "NotImplementedError"
            IN  /\ backoff =>
                      /\ i < Len(prun.log)
                      /\ prun.log[i + 1].pos = c.pos
                      /\ prun.log[i + 1].op = "transform"
                      /\ prun.log[i + 1].X = c.X
                /\ (c.op = "transform" /\ c.outcome = "ok" /\ c.pos < prun.n) =>
                      /\ i < Len(prun.log)
                      /\ prun.log[i + 1].pos = c.pos + 1
                      /\ prun.log[i + 1].op = "fit_transform"
                      /\ prun.log[i + 1].X = Append(c.X, <<c.step, "transform">>)
                /\ (c.outcome # "ok" /\ ~backoff) =>
                      /\ i = Len(prun.log)
                      /\ prun.raised = c.outcome

\* a run in which a step was backed off to its transform, the run went on, and
\* a later step raised another exception with a step still to come
C5_Witness ==
    /\ prun.called
    /\ \E i \in 1 .. Len(prun.log) :
          /\ prun.log[i].op = "fit_transform"
          /\ prun.log[i].outcome = "NotImplementedError"
          /\ i + 2 <= Len(prun.log)
          /\ prun.log[i + 1].outcome = "ok"
          /\ prun.log[Len(prun.log)].outcome = "StageError"
          /\ prun.log[Len(prun.log)].pos < prun.n
          /\ prun.raised = "StageError"

(***************************************************************************)
(* Registry                                                                *)
(***************************************************************************)
\* C6: for every key the reader is invoked at most once, whatever the number
\* of get calls and however the threads interleave.
C6_AtMostOneConstructionPerKey == \A key \in RegistryKeys : reads[key] <= 1

(***************************************************************************)
(* Builders                                                                *)
(***************************************************************************)
\* C7: a build call that succeeded, repeated with the same schema and the same
\* target arguments, succeeds again and returns the same structure.
C7_RepeatedBuildIdentical ==
    (bcall.op = "build" /\ bcall.again /\ bcall.first_raised = None /\ bcall.fields # <<>>)
        => (bcall.raised = None /\ bcall.out = bcall.first_out)

\* C8: for every key of the factory's dispatch table, build_field of each of
\* the three builders returns without raising.
C8_EveryFactoryDtypeBuilds ==
    (bcall.op = "build_field" /\ bcall.fields[1].dtype \in SchemaFieldKeys)
        => bcall.raised = None

(***************************************************************************)
(* SubframeExtractor                                                       *)
(***************************************************************************)
\* the lowest index among the regions of largest bounding-box area
LargestRegion(regions) ==
    Min({ i \in 1 .. Len(regions) :
            \A j \in 1 .. Len(regions) : area_bbox(regions[j]) <= area_bbox(regions[i]) })

\* C9: on a grid with at least one component, an extractor built without a
\* region index selects the first component of largest bounding-box area, one
\* built with a valid index selects the component at that index, and without a
\* header the result is the grid sliced to the selected bounding box.
C9_SelectsLargestOrGivenRegion ==
    (scall.called /\ scall.regions # <<>>) =>
        LET n == Len(scall.regions)
            want == IF ctor_region = <<>> THEN LargestRegion(scall.regions)
                    ELSE ListIndex(n, ctor_region[1])
        IN  want # 0 =>
              /\ scall.raised = None
              /\ bbox = region_bbox(scall.regions[want])
              /\ header = None =>
                    /\ scall.out.rows = bbox[1] .. (bbox[3] - 1)
                    /\ scall.out.cols = bbox[2] .. (bbox[4] - 1)

\* the 4-connected components of a mask, in label order
LabelFour(mask) == Components(mask, 1)

\* C10: the regions the extractor works on are the 4-connected components of
\* the non-null mask.
C10_RegionsAreFourConnected ==
    scall.called => scall.regions = LabelFour(scall.X)


\* C11: for a grid whose non-null cells form exactly one component, an
\* extractor without region index, header and index column returns the whole
\* grid, the all-null rows and columns outside the bounding box included.
C11_SingleComponentReturnsWholeGrid ==
    (scall.called /\ Len(scall.regions) = 1 /\ ctor_region = <<>>
                  /\ header = None /\ index_col = None)
        => /\ scall.raised = None
           /\ scall.out.rows = GridRows
           /\ scall.out.cols = 0 .. (GridColumns - 1)

\* C12: in a call that returns, the first row of the box becomes the column
\* labels and is removed from the data exactly when the header is set (not
\* when it is unset or false), and the index column is applied exactly when
\* one is given, with or without a header.
C12_HeaderAndIndexColumn ==
    (scall.called /\ scall.raised = None) =>
        /\ (scall.out.labels = bbox[1]) <=> (header = "True")
        /\ (bbox[1] \notin scall.out.rows) <=> (header = "True")
        /\ scall.out.indexed <=> (index_col # None)


(***************************************************************************)
(* Clean* transforms and RenameAliases                                     *)
(***************************************************************************)
\* C13: on a cell made only of digits, ',', '.', '-' and whitespace, the
\* cleaning sequence of CleanIntegers and of CleanFloats does not raise: it
\* gives a number, or for an empty result 0 on a non-nullable field and null
\* on a nullable one.
C13_NumericCleaningNeverRaises ==
    ccall.op \in {"CleanIntegers", "CleanFloats"} =>
        /\ ccall.body_raised = None
        /\ IF CleanedText(ccall.cell) = <<>>
           THEN ccall.body_out = IF ccall.nullable THEN [kind |-> "null", text |-> <<>>]
                                 ELSE [kind |-> "number", text |-> <<"0">>]
           ELSE ccall.body_out.kind = "number"

\* C14: CleanBooleans does not raise; a cell that, trimmed and upper-cased, is
\* in TRUTHY gives true, in FALSEY false, in UNKNOWN null, and any other cell
\* is left exactly as it was.
C14_CleanBooleansMapsOrKeeps ==
    ccall.op = "CleanBooleans" =>
        LET text == upper(strip(ccall.cell, Whitespace))
        IN  /\ ccall.body_raised = None
            /\ ccall.body_out =
                 IF text \in TRUTHY THEN [kind |-> "True", text |-> <<>>]
                 ELSE IF text \in FALSEY THEN [kind |-> "False", text |-> <<>>]
                 ELSE IF text \in UNKNOWN THEN [kind |-> "null", text |-> <<>>]
                 ELSE [kind |-> "text", text |-> ccall.cell]

\* the schema columns of which a label is the title or an alias
FieldsOf(fields, l) ==
    { i \in 1 .. Len(fields) : fields[i].title = l \/ l \in fields[i].aliases }

\* C15: RenameAliases does not raise and keeps the number and order of the
\* columns; a label that is the title or an alias of one schema column becomes
\* that column's name, and a label that is neither stays as it is.
C15_RenameToCanonicalName ==
    rcall.called =>
        /\ rcall.raised = None
        /\ Len(rcall.out) = Len(rcall.X)
        /\ \A i \in 1 .. Len(rcall.X) :
             LET of == FieldsOf(rcall.schema, rcall.X[i])
             IN  /\ of = {} => rcall.out[i] = rcall.X[i]
                 /\ \A k \in of : of = {k} => rcall.out[i] = rcall.schema[k].name

(***************************************************************************)
(* C16: whenever Schema accepts a declaration, the fields it has built are *)
(* in ascending order of index (no field is followed by one of lower       *)
(* index), whatever the order of the declaration.                          *)
(***************************************************************************)
C16_FieldsAscendingByIndex ==
    (fcall.op = "Schema" /\ fcall.raised = None) =>
        /\ Len(fcall.fields) = Len(fcall.decls)
        /\ \A i, j \in 1 .. Len(fcall.fields) :
             i < j => fcall.fields[i].index <= fcall.fields[j].index

\* an accepted declaration whose fields are declared out of order
C16_Witness ==
    /\ fcall.op = "Schema"
    /\ fcall.raised = None
    /\ \E i, j \in 1 .. Len(fcall.decls) :
         i < j /\ fcall.decls[i].index > fcall.decls[j].index

\* two fields of the declaration carry the same index
DuplicateIndex(decls) ==
    \E i, j \in 1 .. Len(decls) : i # j /\ decls[i].index = decls[j].index

(***************************************************************************)
(* C17: Schema fails on a declaration in which two fields carry the same   *)
(* index, and no schema built has two fields of equal index.               *)
(***************************************************************************)
C17_DuplicateIndexRejected ==
    fcall.op = "Schema" =>
        /\ DuplicateIndex(fcall.decls) => fcall.raised # None
        /\ ~DuplicateIndex(fcall.fields)

\* the token with every digit and whitespace character removed, lowercased
Normalized(token) ==
    lower(SelectSeq(token, LAMBDA c : c \notin (Digits \cup Whitespace)))

(***************************************************************************)
(* C18: SchemaField selects the variant by the dtype token with digits and *)
(* whitespace removed and lowercased: tokens equal after that select the   *)
(* same variant, the one the dispatch table holds for the normalized form, *)
(* and a token whose normalized form is no key of the table fails with the *)
(* unknown-dtype error (KeyError) and builds no field.                     *)
(***************************************************************************)
C18_SelectionByNormalizedToken ==
    fcall.op = "SchemaField" =>
        LET token == IF fcall.decls[1].dtype = <<>> THEN <<"o", "b", "j", "e", "c", "t">>
                     ELSE fcall.decls[1].dtype
            name  == Normalized(token)
        IN  IF name \in SchemaFieldKeys
            THEN fcall.selected[1] = FieldClass(name)
            ELSE /\ fcall.selected[1] = "KeyError"
                 /\ fcall.raised = "KeyError"
                 /\ fcall.fields = <<>>

StringSafeNames ==
    { <<"c", "a", "t", "e", "g", "o", "r", "y">>, <<"c", "u", "r", "r", "e", "n", "c", "y">>,
      <<"s", "s", "n">>, <<"z", "i", "p", "c", "o", "d", "e">> }

(***************************************************************************)
(* C19: a field whose dtype normalizes to category, currency, ssn or       *)
(* zipcode has the safe-read type string, from get_pandas_safe_type and in *)
(* the schema's dtype map.                                                 *)
(***************************************************************************)
C19_SafeReadTypeIsString ==
    \A i \in 1 .. Len(fcall.fields) :
        FieldTypeName(fcall.fields[i].dtype) \in StringSafeNames
            => fcall.dtype[i] = "string"

(***************************************************************************)
(* C20: a Decimal field that has been constructed has scale at most        *)
(* 131072 and precision at most 16383; a declaration with a larger scale   *)
(* or precision is rejected at construction.                               *)
(***************************************************************************)
C20_DecimalMaximaEnforced ==
    (fcall.op = "SchemaField" /\ fcall.selected[1] = "DecimalSchemaField") =>
        /\ \A i \in 1 .. Len(fcall.extra) :
             /\ fcall.extra[i].scale <= MAX_DECIMAL_SCALE
             /\ fcall.extra[i].precision <= MAX_DECIMAL_PRECISION
        /\ LET decl == fcall.decls[1]
           IN  (\/ decl.scale # <<>> /\ decl.scale[1] > MAX_DECIMAL_SCALE
                \/ decl.precision # <<>> /\ decl.precision[1] > MAX_DECIMAL_PRECISION)
                   => fcall.raised # None

(***************************************************************************)
(* C21: the flags of a field declaration are optional. SchemaField accepts *)
(* a declaration with a lowercase dtype of the dispatch table and no       *)
(* nullable entry, and builds a field whose nullable flag is false.        *)
(***************************************************************************)
C21_OmittedNullableBuildsFalse ==
    (/\ fcall.op = "SchemaField"
     /\ fcall.decls[1].nullable = "absent"
     /\ fcall.decls[1].dtype # <<>>
     /\ ~isupper(fcall.decls[1].dtype[1])
     /\ fcall.selected[1] # "KeyError") =>
        /\ fcall.raised = None
        /\ Len(fcall.fields) = 1
        /\ fcall.fields[1].nullable = FALSE

\* a text of decimal digits with whitespace around it
IsDigitText(x) ==
    LET t == strip(x, Whitespace)
    IN  t # <<>> /\ \A i \in 1 .. Len(t) : t[i] \in Digits

(***************************************************************************)
(* C22: the Int attribute of the record model accepts every text of        *)
(* decimal digits, with or without leading zeros and whitespace around it, *)
(* and gives the integer the digits denote ("007" gives 7, "0" and "000"   *)
(* give 0).                                                                *)
(***************************************************************************)
C22_IntAcceptsDigitTexts ==
    (mcall.op = "Int" /\ IsDigitText(mcall.x)) =>
        /\ mcall.raised = None
        /\ mcall.out = <<DigitsValue(strip(mcall.x, Whitespace))>>

\* the digits a number of hundredths needs: those of its whole part and the
\* decimals up to the last that is not 0
RECURSIVE WholeDigits(_)
WholeDigits(n) == IF n = 0 THEN 0 ELSE 1 + WholeDigits(n \div 10)

NeededDigits(x) ==
    WholeDigits(x \div Unit)
    + (IF x % Unit = 0 THEN 0 ELSE IF x % 10 = 0 THEN 1 ELSE 2)

(***************************************************************************)
(* C23: the Decimal attribute of the record model rounds a value to the    *)
(* field's scale; a value whose rounded form needs more digits than the    *)
(* field's precision is rejected with a validation error, and a value that *)
(* fits is accepted as the rounded value.                                  *)
(***************************************************************************)
C23_DecimalRoundsThenChecksPrecision ==
    mcall.op = "Decimal" =>
        LET field == DecimalSchemaField(mcall.decl[1])
            r     == round(mcall.x[1], field.scale)
        IN  IF NeededDigits(r) > field.precision
            THEN mcall.raised = "ValidationError"
            ELSE mcall.raised = None /\ mcall.out = <<r>>

(***************************************************************************)
(* C30: the default a field declares, 0, false and the empty string        *)
(* included, is the default of the attribute built for it; an attribute is *)
(* required (has no default) only when the field declares no default and   *)
(* required is true.                                                       *)
(***************************************************************************)
C30_DeclaredDefaultCarried ==
    mcall.op = "build_field" =>
        /\ mcall.x[1] # "None" => mcall.out = mcall.x
        /\ mcall.out = <<"...">> => (mcall.x[1] = "None" /\ mcall.required)

(***************************************************************************)
(* C24: when every row and every column of the input satisfies the schema  *)
(* (the input has the schema's columns and validation finds no failure     *)
(* case), Validator.fit_transform returns a table equal to the input and   *)
(* does not call the error sink.                                           *)
(***************************************************************************)
C24_ValidInputReturnedUnchanged ==
    (vcall.called /\ vcall.cases = {} /\ vcall.X.cols = SchemaColumns) =>
        /\ vcall.raised = None
        /\ vcall.out = vcall.X
        /\ vcall.sink_calls = 0

(***************************************************************************)
(* C25: what a fit_transform call drops, returns or raises depends on that *)
(* call's input alone: it is what a Validator that has recorded no failure *)
(* does with the same input, whatever earlier calls recorded.              *)
(***************************************************************************)
C25_EarlierFailuresNeverDrop ==
    vcall.called =>
        LET fresh == fit_transform(schema, error_handler, {}, vcall.X)
        IN  /\ vcall.raised = fresh.raised
            /\ vcall.out = fresh.out

(***************************************************************************)
(* C26: on an extractor built without a region index, every fit_transform  *)
(* call selects the component of largest bounding box of the grid it is    *)
(* given: the bounding box it slices to is that component's, and not that  *)
(* of the component at an index chosen for an earlier grid.                *)
(***************************************************************************)
C26_EveryCallSelectsLargestOfItsGrid ==
    (scall.called /\ ctor_region = <<>> /\ scall.regions # <<>>) =>
        /\ scall.raised = None
        /\ \E i \in 1 .. Len(scall.regions) :
             /\ \A j \in 1 .. Len(scall.regions) :
                  area_bbox(scall.regions[j]) <= area_bbox(scall.regions[i])
             /\ bbox = region_bbox(scall.regions[i])

(***************************************************************************)
(* C27: after any construction and add_step calls, the stages a run goes   *)
(* through are the identity stage and then every stage supplied, each once *)
(* and in the order supplied (add_step supplies last), whatever the names  *)
(* the stages were given.                                                  *)
(***************************************************************************)
C27_StagesAreIdentityThenSupplied ==
    [i \in 1 .. Len(steps) |-> steps[i].step]
        = <<Identity>> \o [i \in 1 .. Len(supplied) |-> supplied[i].step]

(***************************************************************************)
(* C28: the aliases a schema declares survive DataFrameSchemaBuilder.build: *)
(* RenameAliases on the schema built relabels an input column that carries *)
(* a declared alias of a field to that field's name.                       *)
(***************************************************************************)
C28_BuiltSchemaRenamesAliases ==
    ecall.op = "RenameAliases" =>
        \A i \in 1 .. Len(ecall.X) : \A k \in 1 .. Len(ecall.fields) :
            ecall.X[i] \in ecall.fields[k].aliases
                => ecall.out[i] = ecall.fields[k].name

(***************************************************************************)
(* C29: the protect flag a schema declares survives                        *)
(* DataFrameSchemaBuilder.build: EasyValidate with protect enabled, on the *)
(* schema built, hashes exactly the columns whose field has protect true.  *)
(***************************************************************************)
C29_ProtectedColumnsHashed ==
    (ecall.op = "EasyValidate" /\ ecall.protect) =>
        /\ ecall.raised = None
        /\ ecall.hashed = { ecall.fields[k].name : k \in
                              { j \in 1 .. Len(ecall.fields) : ecall.fields[j].protect } }

====
